---- MODULE Spec2Model ----
(***************************************************************************)
(* A model of requirementslib's dependency retrieval pipeline, of the      *)
(* AbstractDependency merge, version queries and get_deps, of              *)
(* find_all_matches, of get_grouped_dependencies and of two interleaved    *)
(* get_dependencies calls (src/requirementslib/models/dependencies.py),    *)
(* and of the process-wide state SetupInfo.get_info works on               *)
(* (src/requirementslib/models/setup_info.py).                             *)
(*                                                                         *)
(* Requirements are represented by their requirement lines (strings).  An  *)
(* InstallRequirement handed back by the wheel cache or by the resolver is *)
(* represented by the line it was built from; format_requirement turns it  *)
(* into the canonical line (lower-case project name).                      *)
(***************************************************************************)
EXTENDS Integers, Sequences, FiniteSets, TLC

(* ----------------------------- bounds ---------------------------------- *)

\* Longest dependency list an external service (wheel cache, metadata
\* service, resolver) hands back in one call.
MaxDeps == 2

(* ------------------------ requirement lines ---------------------------- *)

\* The install requirements get_dependencies is asked about: a pinned one,
\* a ranged (not pinned) one and an editable one.
Ireqs == {"foo==1.0", "qux>=2", "-e ./pkg"}

\* What get_dependencies accepts: an InstallRequirement, or a candidate
\* object with a name and a version.
Inputs == Ireqs \cup {"Candidate(foo, 1.0)"}

\* Requirement lines as the external services produce them.
RawReqs == {"Bar>=1", "baz; extra == 'x'"}

\* ireq.editable
editable(ireq) == ireq = "-e ./pkg"

\* is_pinned_requirement(ireq): a single == specifier, not editable.
is_pinned_requirement(ireq) == ireq = "foo==1.0"

\* format_requirement(ireq): the requirement line with the project name
\* lower-cased.
format_requirement(r) == IF r = "Bar>=1" THEN "bar>=1" ELSE r

\* "extra" in repr(i.markers)
has_extra_marker(r) == r = "baz; extra == 'x'"

\* InstallRequirement.from_line("{0}=={1}".format(name, version)) for an
\* input that is not an InstallRequirement.
as_ireq(x) == IF x = "Candidate(foo, 1.0)" THEN "foo==1.0" ELSE x

(* --------------------------- sequences --------------------------------- *)

Range(s) == {s[i] : i \in DOMAIN s}

SeqsUpTo(S, n) == UNION {[1..k -> S] : k \in 0..n}

\* A set's elements in its iteration order: a sequence without repetition.
Iterations(S, n) == {s \in SeqsUpTo(S, n) : Cardinality(Range(s)) = Len(s)}

\* [format_requirement(m) for m in s]
Formatted(s) == [i \in DOMAIN s |-> format_requirement(s[i])]

(* ------------------------ the Dependency Cache ------------------------- *)

\* DEPENDENCY_CACHE: a mapping from requirement to list of dependency lines,
\* modelled as a function whose domain is the set of keys present.
InCache(dc, ireq) == ireq \in DOMAIN dc

\* DEPENDENCY_CACHE[ireq] = deps
SetItem(dc, ireq, deps) ==
    [k \in DOMAIN dc \cup {ireq} |-> IF k = ireq THEN deps ELSE dc[k]]

\* bool(DEPENDENCY_CACHE.get(ireq)): an entry that is present and not empty.
GetTruthy(dc, ireq) == InCache(dc, ireq) /\ dc[ireq] # <<>>

(* ------------------- what the external services answer ----------------- *)

\* WHEEL_CACHE.get(link, name): nothing, or the requirements of the built
\* artifact; reqs is set(matches) in its iteration order.
WheelLookups ==
    {[found |-> FALSE, reqs |-> <<>>]}
        \cup {[found |-> TRUE, reqs |-> s] : s \in Iterations(RawReqs, MaxDeps)}

\* session.get(...).json(): a body that is not JSON, a JSON body without
\* "info", or an info whose requires_dist is the given list (None: <<>>).
JsonResponses ==
    {[kind |-> "undecodable", requires |-> <<>>],
     [kind |-> "no_info", requires |-> <<>>]}
        \cup {[kind |-> "ok", requires |-> s] : s \in SeqsUpTo(RawReqs, MaxDeps)}

\* resolver._resolve_one(reqset, dep): raises, or the requirements found;
\* reqs is set(requirements) in its iteration order.
ResolveOutcomes ==
    {[kind |-> "raise", reqs |-> <<>>]}
        \cup {[kind |-> "ok", reqs |-> s] : s \in Iterations(RawReqs, MaxDeps)}

(* ------------------------------ tiers ---------------------------------- *)

\* What a tier call does: the cache after it, whether it returned a set
\* (answer) or None, the set, the exception it raised ("": none) and what
\* the service it asked did ("": it asked none).
Returned(dc, deps, asked) ==
    [cache |-> dc, answer |-> TRUE, deps |-> deps, error |-> "", asked |-> asked]

NoAnswer(dc, asked) ==
    [cache |-> dc, answer |-> FALSE, deps |-> {}, error |-> "", asked |-> asked]

Raised(dc, e, asked) ==
    [cache |-> dc, answer |-> FALSE, deps |-> {}, error |-> e, asked |-> asked]

\* A cache tier that forgets the editable test.
get_dependencies_from_cache_any(dep, dc) ==
    IF InCache(dc, dep) THEN Returned(dc, Range(dc[dep]), "") ELSE NoAnswer(dc, "")

get_dependencies_from_cache(dep, dc) ==
    IF ~editable(dep) /\ InCache(dc, dep)
    THEN Returned(dc, Range(dc[dep]), "")
    ELSE NoAnswer(dc, "")

get_dependencies_from_wheel_cache(ireq, dc, lookup) ==
    IF editable(ireq) THEN NoAnswer(dc, "")
    ELSE IF lookup.found /\ lookup.reqs # <<>>
    THEN Returned(IF ~GetTruthy(dc, ireq)
                  THEN SetItem(dc, ireq, Formatted(lookup.reqs))
                  ELSE dc,
                  Range(lookup.reqs), "hit")
    ELSE NoAnswer(dc, "miss")

\* The exception gen(ireq) raises while it is consumed ("": none).
gen_error(resp) ==
    CASE resp.kind = "undecodable" -> "JSONDecodeError"
      [] resp.kind = "no_info" -> "KeyError"
      [] OTHER -> ""

\* list(gen(ireq)): the formatted requirements without an extra marker.
gen(resp) ==
    Formatted(SelectSeq(resp.requires, LAMBDA r : ~has_extra_marker(r)))

\* A json tier that stores the live list on every call.
get_dependencies_from_json_recaching(ireq, dc, resp) ==
    IF editable(ireq) THEN NoAnswer(dc, "")
    ELSE IF ~is_pinned_requirement(ireq) THEN Raised(dc, "TypeError", "")
    ELSE IF gen_error(resp) = "JSONDecodeError" /\ ~InCache(dc, ireq)
    THEN NoAnswer(dc, resp.kind)
    ELSE IF gen_error(resp) # "" THEN Raised(dc, gen_error(resp), resp.kind)
    ELSE Returned(SetItem(dc, ireq, gen(resp)), Range(gen(resp)), resp.kind)

get_dependencies_from_json(ireq, dc, resp) ==
    IF editable(ireq) THEN NoAnswer(dc, "")
    ELSE IF ~is_pinned_requirement(ireq) THEN Raised(dc, "TypeError", "")
    ELSE IF ~InCache(dc, ireq)
    THEN IF gen_error(resp) = "JSONDecodeError" THEN NoAnswer(dc, resp.kind)
         ELSE IF gen_error(resp) # "" THEN Raised(dc, gen_error(resp), resp.kind)
         ELSE Returned(SetItem(dc, ireq, gen(resp)), Range(gen(resp)), resp.kind)
    ELSE IF gen_error(resp) # "" THEN Raised(dc, gen_error(resp), resp.kind)
         ELSE Returned(dc, Range(gen(resp)), resp.kind)

\* A full-resolution tier that gives no answer when the resolution fails.
get_dependencies_from_index_giving_up(dep, dc, outcome) ==
    IF outcome.kind = "ok"
    THEN Returned(IF ~editable(dep)
                  THEN SetItem(dc, dep, Formatted(outcome.reqs))
                  ELSE dc,
                  Range(outcome.reqs), outcome.kind)
    ELSE NoAnswer(dc, outcome.kind)

\* A full-resolution tier that caches what it finds for any requirement.
get_dependencies_from_index_caching_editable(dep, dc, outcome) ==
    IF outcome.kind = "ok"
    THEN Returned(SetItem(dc, dep, Formatted(outcome.reqs)),
                  Range(outcome.reqs), outcome.kind)
    ELSE Returned(dc, {}, outcome.kind)

\* A full-resolution tier that caches the empty list of a failed resolution.
get_dependencies_from_index_caching_failure(dep, dc, outcome) ==
    IF outcome.kind = "ok"
    THEN Returned(IF ~editable(dep)
                  THEN SetItem(dc, dep, Formatted(outcome.reqs))
                  ELSE dc,
                  Range(outcome.reqs), outcome.kind)
    ELSE Returned(IF ~editable(dep) THEN SetItem(dc, dep, <<>>) ELSE dc,
                  {}, outcome.kind)

get_dependencies_from_index(dep, dc, outcome) ==
    IF outcome.kind = "ok"
    THEN Returned(IF ~editable(dep)
                  THEN SetItem(dc, dep, Formatted(outcome.reqs))
                  ELSE dc,
                  Range(outcome.reqs), outcome.kind)
    ELSE Returned(dc, {}, outcome.kind)

(* --------------------------- get_dependencies -------------------------- *)

\* The getters with the wheel cache asked before the Dependency Cache.
getters_wheel_first == <<"wheel", "cache", "json", "index">>

\* getters, in the order get_dependencies tries them.
getters == <<"cache", "wheel", "json", "index">>

getter(name, ireq, dc, env) ==
    CASE name = "cache" -> get_dependencies_from_cache(ireq, dc)
      [] name = "wheel" -> get_dependencies_from_wheel_cache(ireq, dc, env.wheel)
      [] name = "json" -> get_dependencies_from_json(ireq, dc, env.json)
      [] name = "index" -> get_dependencies_from_index(ireq, dc, env.resolve)

\* How a call ended: with a set, with None, or with an exception.
Gave(t) == IF t.error # "" THEN "raised" ELSE IF t.answer THEN "set" ELSE "none"

\* One tier invocation as an instrumented run sees it.
Invoked(name, t) ==
    [name |-> name, gave |-> Gave(t), deps |-> t.deps, asked |-> t.asked]

\* The requirement an exception's message names ("": none).
error_names(e, ireq) == IF e \in {"RuntimeError", "TypeError"} THEN ireq ELSE ""

\* The record of one call: what was called, on what, the tiers it invoked
\* in order, how it ended and, for an error, the requirement its message
\* names.
Call(op, ireq, tiers, t) ==
    [op |-> op, ireq |-> ireq, tiers |-> tiers, outcome |-> Gave(t),
     deps |-> t.deps, error |-> t.error, named |-> error_names(t.error, ireq)]

\* for getter in getters: deps = getter(ireq); if deps is not None: return
\* raise RuntimeError('failed to get dependencies for {}'.format(ireq))
RECURSIVE try_getters(_, _, _, _, _)
try_getters(i, ireq, dc, env, tried) ==
    IF i > Len(getters)
    THEN [cache |-> dc,
          call |-> Call("get_dependencies", ireq, tried,
                        Raised(dc, "RuntimeError", ""))]
    ELSE LET t == getter(getters[i], ireq, dc, env)
             now == Append(tried, Invoked(getters[i], t))
         IN  IF t.error # "" \/ t.answer
             THEN [cache |-> t.cache,
                   call |-> Call("get_dependencies", ireq, now, t)]
             ELSE try_getters(i + 1, ireq, t.cache, env, now)

get_dependencies(x, dc, env) == try_getters(1, as_ireq(x), dc, env, <<>>)

(* ------------------------- AbstractDependency -------------------------- *)

\* Release numbers the index knows go up to MaxMajor.
MaxMajor == 3

\* Version strings as their dot-separated numbers: 1.0 is <<1, 0>>.  The
\* index knows N.0 for every release N, and 1.0.0 beside 1.0.
VersionStrings == {<<m, 0>> : m \in 1..MaxMajor} \cup {<<1, 0, 0>>}

\* packaging.version.parse(v): versions that differ in trailing zeros only
\* are equal.
RECURSIVE parse(_)
parse(v) ==
    IF Len(v) > 1 /\ v[Len(v)] = 0 THEN parse(SubSeq(v, 1, Len(v) - 1)) ELSE v

\* A specifier clause, such as >=2.0.
Clause(op, v) == [op |-> op, v |-> v]

\* An install requirement of the package: its specifier (a set of clauses)
\* and whether it is editable.
Ireq(specifier, ed) == [specifier |-> specifier, editable |-> ed]

\* make_install_requirement(name, version): the requirement name==version.
make_install_requirement(v) == Ireq({Clause("==", v)}, FALSE)

EditableIreq == Ireq({}, TRUE)

\* The requirements of the package that are declared: ranged, pinned and
\* editable ones.
Requirements ==
    {Ireq({}, FALSE), Ireq({Clause(">=", <<2, 0>>)}, FALSE),
     Ireq({Clause("<", <<2, 0>>)}, FALSE),
     make_install_requirement(<<1, 0>>), make_install_requirement(<<2, 0>>),
     EditableIreq}

\* is_pinned_requirement(ireq) for these requirements.
is_pinned(ireq) ==
    /\ ~ireq.editable
    /\ Cardinality(ireq.specifier) = 1
    /\ \A cl \in ireq.specifier : cl.op = "=="

\* version_from_ireq(ireq): the version of the first clause.
version_from_ireq(ireq) == (CHOOSE cl \in ireq.specifier : TRUE).v

\* A pre-release N.0a1 is written <<N, 0, -1>>: the segment a1 as -1.
is_prerelease(v) == v[Len(v)] < 0

\* Whether a version is in a clause's range.  Versions here are N.0, N.0.0
\* or N.0a1 and a clause names N.0, so that the release number decides; the
\* pre-release N.0a1 comes before N.0, and <N.0 excludes it.
contains(cl, v) ==
    CASE cl.op = "==" -> parse(v) = parse(cl.v)
      [] cl.op = ">=" -> IF is_prerelease(v)
                         THEN parse(v)[1] > parse(cl.v)[1]
                         ELSE parse(v)[1] >= parse(cl.v)[1]
      [] cl.op = "<" -> parse(v)[1] < parse(cl.v)[1]

\* The AbstractDependency attributes the merge reads and writes.
AbstractDependency(specifiers, candidates, requirement, dep_dict) ==
    [name |-> "pkg", specifiers |-> specifiers, candidates |-> candidates,
     requirement |-> requirement, dep_dict |-> dep_dict]

\* No dependency: before a merge, or after one that raised.
NoDep == [name |-> "", specifiers |-> {}, candidates |-> <<>>,
          requirement |-> Ireq({}, FALSE), dep_dict |-> <<>>]

\* sorted(set(candidates), key=parse(version)): the orders a sort by parsed
\* version can leave a set of candidates in.
SortedByVersion(S) ==
    {s \in [1..Cardinality(S) -> S] :
        /\ Range(s) = S
        /\ \A i, j \in DOMAIN s :
             i < j => parse(version_from_ireq(s[i]))[1]
                        <= parse(version_from_ireq(s[j]))[1]}

\* AbstractDependency.from_requirement(requirement) when the index answers
\* with the candidate versions in found.
from_requirement(requirement, found) ==
    IF ~is_pinned(requirement) /\ ~requirement.editable
    THEN {AbstractDependency(requirement.specifier, c, requirement, <<>>) :
            c \in SortedByVersion({make_install_requirement(v) : v \in found})}
    ELSE {AbstractDependency(requirement.specifier, <<requirement>>,
                             requirement, <<>>)}

\* requirement.find_all_matches(finder): the versions of the index that the
\* requirement's range contains, for every content of the index.
Matches(requirement) ==
    SUBSET {v \in VersionStrings : \A cl \in requirement.specifier : contains(cl, v)}

\* The abstract dependencies from_requirement builds.
AbstractDependencies ==
    UNION {UNION {from_requirement(r, found) : found \in Matches(r)} :
             r \in Requirements}

\* len(self.candidates) == 1 and first(self.candidates).editable
single_editable(dep) ==
    Len(dep.candidates) = 1 /\ dep.candidates[1].editable

\* A version set of the version strings as they are written.
version_set_of_strings(dep) ==
    IF Len(dep.candidates) = 1 THEN {}
    ELSE {version_from_ireq(dep.candidates[i]) : i \in DOMAIN dep.candidates}

version_set(dep) ==
    IF Len(dep.candidates) = 1 THEN {}
    ELSE {parse(version_from_ireq(dep.candidates[i])) : i \in DOMAIN dep.candidates}

\* compatible_versions with other tested before self.
compatible_versions_other_first(a, b) ==
    IF single_editable(b) THEN [is_dep |-> TRUE, dep |-> b, versions |-> {}]
    ELSE IF single_editable(a) THEN [is_dep |-> TRUE, dep |-> a, versions |-> {}]
    ELSE [is_dep |-> FALSE, dep |-> NoDep,
          versions |-> version_set(a) \cap version_set(b)]

\* compatible_versions that keeps every version of self.
compatible_versions_of_self(a, b) ==
    IF single_editable(a) THEN [is_dep |-> TRUE, dep |-> a, versions |-> {}]
    ELSE IF single_editable(b) THEN [is_dep |-> TRUE, dep |-> b, versions |-> {}]
    ELSE [is_dep |-> FALSE, dep |-> NoDep, versions |-> version_set(a)]

\* compatible_versions: a dependency (is_dep) or a set of versions.
compatible_versions(a, b) ==
    IF single_editable(a) THEN [is_dep |-> TRUE, dep |-> a, versions |-> {}]
    ELSE IF single_editable(b) THEN [is_dep |-> TRUE, dep |-> b, versions |-> {}]
    ELSE [is_dep |-> FALSE, dep |-> NoDep,
          versions |-> version_set(a) \cap version_set(b)]

\* What a merge does: it returns a dependency, or raises.  object tells
\* which object the returned dependency is: one built by the call ("new"),
\* or an operand itself ("self", "other"), returned as it is.
MergeReturns(dep) == [error |-> "", value |-> dep, object |-> "new"]

MergeReturnsOperand(which, dep) ==
    [error |-> "", value |-> dep, object |-> which]

MergeRaises(e) == [error |-> e, value |-> NoDep, object |-> "none"]

NotMerged == [error |-> "not called", value |-> NoDep, object |-> "none"]

\* A dep_dict carried over whole.
carried_dep_dict_all(dep_dict, candidates) == dep_dict

\* dep_dict restricted to the keys format_requirement(c) of the candidates.
carried_dep_dict(dep_dict, candidates) ==
    [k \in Range(candidates) \cap DOMAIN dep_dict |-> dep_dict[k]]

\* A merge that reports an empty candidate list as an error.
compatible_abstract_dep_raising(a, b) ==
    IF single_editable(a) THEN MergeReturnsOperand("self", a)
    ELSE IF single_editable(b) THEN MergeReturnsOperand("other", b)
    ELSE IF version_set(a) \cap version_set(b) = {}
    THEN MergeRaises("EmptyIntersectionError")
    ELSE MergeReturns(AbstractDependency(
             a.specifiers \cup b.specifiers,
             SelectSeq(a.candidates,
                       LAMBDA c : parse(version_from_ireq(c))
                                     \in version_set(a) \cap version_set(b)),
             Ireq(a.specifiers \cup b.specifiers, a.requirement.editable),
             <<>>))

compatible_abstract_dep(a, b) ==
    IF single_editable(a) THEN MergeReturnsOperand("self", a)
    ELSE IF single_editable(b) THEN MergeReturnsOperand("other", b)
    ELSE LET new_specifiers == a.specifiers \cup b.specifiers
             new_requirement == Ireq(new_specifiers, a.requirement.editable)
             compatible == compatible_versions(a, b)
         IN  IF compatible.is_dep
             THEN MergeReturnsOperand(
                      IF single_editable(a) THEN "self" ELSE "other",
                      compatible.dep)
             ELSE LET candidates ==
                          SelectSeq(a.candidates,
                                    LAMBDA c : parse(version_from_ireq(c))
                                                  \in compatible.versions)
                  IN  MergeReturns(AbstractDependency(
                          new_specifiers, candidates, new_requirement,
                          carried_dep_dict(a.dep_dict, candidates)))

\* req.get_abstract_dependencies(): the dependency lists a retrieval can
\* come back with for a candidate.
DependencyLists == {<<>>, <<"dep">>}

\* self.get_deps(candidate) when a retrieval would come back with retrieved:
\* self afterwards.  The key is the candidate's requirement line.
get_deps(dep, candidate, retrieved) ==
    IF candidate \in DOMAIN dep.dep_dict THEN dep
    ELSE [dep EXCEPT !.dep_dict =
             [k \in DOMAIN dep.dep_dict \cup {candidate} |->
                 IF k = candidate THEN retrieved ELSE dep.dep_dict[k]]]

\* What a version_set or compatible_versions call gave, and on what.
Gives(op, a, b, value) == [op |-> op, self |-> a, other |-> b, value |-> value]

NotReturned == Gives("none", NoDep, NoDep, {})

(* --------------------------- find_all_matches -------------------------- *)

\* The pre-releases the index knows: N.0a1 for the releases after the first.
PreReleases == {<<m, 0, -1>> : m \in 2..MaxMajor}

\* The candidates an index can hold, one per version string.
InstallationCandidates ==
    {[version |-> v] : v \in VersionStrings \cup PreReleases}

\* ireq.specifier.filter(versions, prereleases=prereleases) with an explicit
\* True or False: every clause contains the version, and a pre-release
\* passes only with prereleases=True.
_get_filtered_versions(ireq, versions, prereleases) ==
    {v \in versions :
        /\ prereleases \/ ~is_prerelease(v)
        /\ \A cl \in ireq.specifier : contains(cl, v)}

\* A search that does not retry with pre-releases.
find_all_matches_once(candidates, ireq, pre) ==
    {c \in candidates :
        parse(c.version) \in
            _get_filtered_versions(ireq, {parse(d.version) : d \in candidates}, pre)}

find_all_matches(candidates, ireq, pre) ==
    LET versions == {parse(c.version) : c \in candidates}
        allowed_versions == _get_filtered_versions(ireq, versions, pre)
        retried == IF ~pre /\ allowed_versions = {}
                   THEN _get_filtered_versions(ireq, versions, TRUE)
                   ELSE allowed_versions
    IN  {c \in candidates : parse(c.version) \in retried}

\* What a find_all_matches call was asked and what it returned.
Searched(ireq, pre, candidates) ==
    [called |-> TRUE, ireq |-> ireq, pre |-> pre, candidates |-> candidates]

NotSearched ==
    [called |-> FALSE, ireq |-> Ireq({}, FALSE), pre |-> FALSE, candidates |-> {}]

(* ----------------------- get_grouped_dependencies ---------------------- *)

\* Longest list of constraints handed to get_grouped_dependencies.
MaxConstraints == 3

\* ireq.req.specifier: a SpecifierSet of pip's vendored packaging or of the
\* installed packaging, with its _specs.
SpecifierSet(module, specs) == [module |-> module, specs |-> specs]

\* ireq.markers: None, or a Marker with its _markers list; a parsed list
\* starts with a (variable, op, value) tuple.
NoMarkers == <<>>

Marker(text) == <<[type |-> "tuple", text |-> text]>>

\* An InstallRequirement as get_grouped_dependencies reads it.
InstallRequirement(name, specifier, markers, extras, ed, constraint) ==
    [name |-> name, specifier |-> specifier, markers |-> markers,
     extras |-> extras, editable |-> ed, constraint |-> constraint]

\* The declarations constraints are made of: ranged ones of both packaging
\* modules, ones without a range, an editable one and one of another
\* package.
Declarations ==
    {InstallRequirement("pkg",
        SpecifierSet("pip._vendor.packaging",
                     {Clause(">=", <<1, 0>>), Clause("<", <<3, 0>>)}),
        NoMarkers, {}, FALSE, FALSE),
     InstallRequirement("pkg",
        SpecifierSet("pip._vendor.packaging", {Clause(">=", <<2, 0>>)}),
        Marker("python_version < '3'"), {"a"}, FALSE, TRUE),
     InstallRequirement("Pkg",
        SpecifierSet("packaging", {Clause(">=", <<2, 0>>)}),
        NoMarkers, {}, FALSE, FALSE),
     InstallRequirement("pkg",
        SpecifierSet("pip._vendor.packaging", {}),
        Marker("os_name == 'nt'"), {"b"}, FALSE, TRUE),
     InstallRequirement("pkg",
        SpecifierSet("packaging", {}),
        NoMarkers, {}, FALSE, TRUE),
     InstallRequirement("pkg",
        SpecifierSet("pip._vendor.packaging", {}),
        NoMarkers, {}, TRUE, FALSE),
     InstallRequirement("other",
        SpecifierSet("pip._vendor.packaging", {Clause("==", <<1, 0>>)}),
        NoMarkers, {}, FALSE, FALSE)}

\* key_from_ireq(ireq): the canonical (lower-case) project name.
key_from_ireq(ireq) == IF ireq.name = "Pkg" THEN "pkg" ELSE ireq.name

\* The keys of a list in first-seen order.
RECURSIVE keys_in_order(_, _)
keys_in_order(ireqs, seen) ==
    IF ireqs = <<>> THEN seen
    ELSE keys_in_order(Tail(ireqs),
            IF key_from_ireq(Head(ireqs)) \in Range(seen) THEN seen
            ELSE Append(seen, key_from_ireq(Head(ireqs))))

\* full_groupby(constraints, key=key_from_ireq): the groups, each with its
\* entries in the order of the list.
full_groupby(ireqs) ==
    LET keys == keys_in_order(ireqs, <<>>)
    IN  [g \in DOMAIN keys |->
            SelectSeq(ireqs, LAMBDA ireq : key_from_ireq(ireq) = keys[g])]

\* a &= b raises TypeError unless b is a SpecifierSet of a's own module.
and_raises_TypeError(a, b) == a.module # b.module

\* The try/except around combined_ireq.req.specifier &= ireq.req.specifier.
combine_specifier(combined, specifier) ==
    IF ~and_raises_TypeError(combined, specifier)
    THEN SpecifierSet(combined.module, combined.specs \cup specifier.specs)
    ELSE IF specifier.specs # {} /\ combined.specs = {}
    THEN SpecifierSet(combined.module, specifier.specs)
    ELSE combined

\* An accumulator that nests its markers with those of every later entry.
combine_markers_nesting(combined, markers) ==
    IF combined = NoMarkers THEN markers
    ELSE <<[type |-> "list", items |-> combined],
           [type |-> "str", text |-> "and"],
           [type |-> "list", items |-> markers]>>

\* The markers of the accumulator after an entry.
combine_markers(combined, markers) ==
    IF combined = NoMarkers THEN markers
    ELSE IF combined[1].type \notin {"tuple", "list"}
    THEN <<[type |-> "list", items |-> combined],
           [type |-> "str", text |-> "and"],
           [type |-> "list", items |-> markers]>>
    ELSE combined

\* One round of the loop over the entries after the first.
combine(combined, ireq) ==
    InstallRequirement(
        combined.name,
        combine_specifier(combined.specifier, ireq.specifier),
        combine_markers(combined.markers, ireq.markers),
        combined.extras \cup ireq.extras,
        combined.editable,
        combined.constraint /\ ireq.constraint)

RECURSIVE fold(_, _)
fold(combined, ireqs) ==
    IF ireqs = <<>> THEN combined
    ELSE fold(combine(combined, Head(ireqs)), Tail(ireqs))

\* first(ireqs, key=lambda ireq: ireq.editable), as a list of none or one.
first_editable(ireqs) ==
    LET editables == SelectSeq(ireqs, LAMBDA ireq : ireq.editable)
    IN  IF editables = <<>> THEN <<>> ELSE <<Head(editables)>>

\* A grouping that folds a group whatever it holds.
yield_of_group_folded(ireqs) == fold(Head(ireqs), Tail(ireqs))

\* What the loop body yields for one group.
yield_of_group(ireqs) ==
    IF first_editable(ireqs) # <<>> THEN first_editable(ireqs)[1]
    ELSE fold(Head(ireqs), Tail(ireqs))

\* The entries of a group after the fold from entry i on.  The accumulator
\* starts as a deep copy of the first entry; combined_ireq.markers =
\* ireq.markers makes it hold the Marker object of entry i (holds = i, and 0
\* while the Marker is its own), and an assignment to
\* combined_ireq.markers._markers writes to the object it holds.
RECURSIVE entries_after_fold(_, _, _, _)
entries_after_fold(combined, holds, ireqs, i) ==
    IF i > Len(ireqs) THEN ireqs
    ELSE LET ireq == ireqs[i]
             next == combine(combined, ireq)
         IN  IF combined.markers = NoMarkers
             THEN entries_after_fold(
                      next, IF ireq.markers = NoMarkers THEN 0 ELSE i,
                      ireqs, i + 1)
             ELSE entries_after_fold(
                      next, holds,
                      IF holds = 0 THEN ireqs
                      ELSE [ireqs EXCEPT ![holds].markers = next.markers],
                      i + 1)

\* The entries of one group after the loop body ran for it.
group_after(ireqs) ==
    IF first_editable(ireqs) # <<>> THEN ireqs
    ELSE entries_after_fold(Head(ireqs), 0, ireqs, 2)

\* The list handed to get_grouped_dependencies after the generator is
\* exhausted: every entry as the loop left its objects.
constraints_after(ireqs) ==
    LET keys == keys_in_order(ireqs, <<>>)
        groups == full_groupby(ireqs)
    IN  [p \in DOMAIN ireqs |->
            LET g == CHOOSE h \in DOMAIN keys :
                         keys[h] = key_from_ireq(ireqs[p])
                n == Cardinality({q \in 1..p :
                         key_from_ireq(ireqs[q]) = keys[g]})
            IN  group_after(groups[g])[n]]

\* list(get_grouped_dependencies(constraints))
get_grouped_dependencies(ireqs) ==
    LET groups == full_groupby(ireqs)
    IN  [g \in DOMAIN groups |-> yield_of_group(groups[g])]

Grouped(ireqs) == [called |-> TRUE, ireqs |-> ireqs]

NotGrouped == [called |-> FALSE, ireqs |-> <<>>]

(* ------------------------------- state --------------------------------- *)

VARIABLES
    cache,      \* DEPENDENCY_CACHE
    last,       \* the record of the most recent call
    tick,       \* parity of the number of calls made
    self,       \* the AbstractDependency merge is called on
    other,      \* the AbstractDependency it is merged with
    merged,     \* what self.compatible_abstract_dep(other) did
    returned,   \* what the latest version_set or compatible_versions gave
    finder,     \* the candidates the package index holds
    matches,    \* what the latest find_all_matches call returned
    constraints, \* the list handed to get_grouped_dependencies
    yielded,    \* what get_grouped_dependencies yielded for it
    got,        \* what the latest get_deps call did
    asked,      \* the requirement two concurrent get_dependencies calls ask
    calls,      \* where each of the two calls is, and what it holds
    Log_log,    \* distutils.log.Log._log: how many _log wrappers are on it
    sys_argv,   \* sys.argv
    _setup_stop_after, \* the module global _setup_stop_after
    old_python, \* sys.version_info < (3, 5)
    info        \* what the latest SetupInfo.get_info call did

pvars == <<cache, last, tick>>

mvars == <<self, other, merged>>

vvars == <<returned>>

fvars == <<finder, matches>>

gvars == <<constraints, yielded>>

dvars == <<got>>

rvars == <<asked, calls>>

svars == <<Log_log, sys_argv, _setup_stop_after, old_python, info>>

vars ==
    <<cache, last, tick, self, other, merged, returned, finder, matches,
      constraints, yielded, got, asked, calls, Log_log, sys_argv,
      _setup_stop_after, old_python, info>>

\* Dependency lists a cache file read at start-up may hold for a key.
SeedLists == {<<>>, <<"bar>=1">>}

SeedCaches == UNION {[K -> SeedLists] : K \in SUBSET Ireqs}

NoCall ==
    [op |-> "none", ireq |-> "", tiers |-> <<>>, outcome |-> "none",
     deps |-> {}, error |-> "", named |-> ""]

\* What a get_deps call did: the key it looked up, whether it made the
\* retrieval, and the list it returned.
Got(key, retrieval, value, parity) ==
    [called |-> TRUE, key |-> key, retrieval |-> retrieval, value |-> value,
     parity |-> parity]

NotGot ==
    [called |-> FALSE, key |-> <<>>, retrieval |-> FALSE, value |-> <<>>,
     parity |-> 0]

\* What a get_info call did: whether it ran the setup script, how the script
\* ended, and the error the call let out.
NoInfo ==
    [called |-> FALSE, base_dir |-> "", ran |-> FALSE, script |-> "none",
     error |-> "", parity |-> 0]

\* The variables of the other operations, as they are while the pipeline,
\* the merge, the version queries, the index search or the grouping is the
\* operation looked at.
PipelineIdle == cache = <<>> /\ last = NoCall /\ tick = 0

MergeIdle == self = NoDep /\ other = NoDep /\ merged = NotMerged

VersionsIdle == returned = NotReturned

FindIdle == finder = {} /\ matches = NotSearched

GroupIdle == constraints = <<>> /\ yielded = NotGrouped

DepsIdle == got = NotGot

RaceIdle == asked = "" /\ calls = <<>>

SetupIdle ==
    /\ Log_log = 0
    /\ sys_argv = <<>>
    /\ _setup_stop_after = "None"
    /\ old_python = FALSE
    /\ info = NoInfo

OthersIdle == DepsIdle /\ RaceIdle /\ SetupIdle

Init ==
    /\ cache \in SeedCaches
    /\ last = NoCall
    /\ tick = 0
    /\ MergeIdle
    /\ VersionsIdle
    /\ FindIdle
    /\ GroupIdle
    /\ OthersIdle

\* A service is asked only by a tier that runs and gets as far as asking:
\* the wheel and json tiers return for an editable requirement before they
\* ask, and the json tier raises for one that is not pinned.
NoWheel == [found |-> FALSE, reqs |-> <<>>]

NoJson == [kind |-> "undecodable", requires |-> <<>>]

NoResolve == [kind |-> "raise", reqs |-> <<>>]

Stops(t) == t.answer \/ t.error # ""

AsksWheel(ireq) == ~editable(ireq)

AsksJson(ireq) == ~editable(ireq) /\ is_pinned_requirement(ireq)

GetDependencies ==
    \E x \in Inputs :
      LET ireq == as_ireq(x)
          t1 == get_dependencies_from_cache(ireq, cache)
      IN
      \E w \in IF ~Stops(t1) /\ AsksWheel(ireq) THEN WheelLookups ELSE {NoWheel} :
        LET t2 == get_dependencies_from_wheel_cache(ireq, t1.cache, w) IN
        \E j \in IF ~Stops(t1) /\ ~Stops(t2) /\ AsksJson(ireq)
                 THEN JsonResponses ELSE {NoJson} :
          LET t3 == get_dependencies_from_json(ireq, t2.cache, j) IN
          \E r \in IF ~Stops(t1) /\ ~Stops(t2) /\ ~Stops(t3)
                   THEN ResolveOutcomes ELSE {NoResolve} :
            LET res == get_dependencies(x, cache,
                           [wheel |-> w, json |-> j, resolve |-> r])
            IN  /\ cache' = res.cache
                /\ last' = res.call
                /\ tick' = 1 - tick
                /\ UNCHANGED <<mvars, vvars, fvars, gvars, dvars, rvars, svars>>

Direct(op, ireq, t) ==
    /\ cache' = t.cache
    /\ last' = Call(op, ireq, <<Invoked(op, t)>>, t)
    /\ tick' = 1 - tick
    /\ UNCHANGED <<mvars, vvars, fvars, gvars, dvars, rvars, svars>>

CallCache ==
    \E c \in Ireqs : Direct("cache", c, get_dependencies_from_cache(c, cache))

CallWheel ==
    \E c \in Ireqs, w \in WheelLookups :
        Direct("wheel", c, get_dependencies_from_wheel_cache(c, cache, w))

CallJson ==
    \E c \in Ireqs, j \in JsonResponses :
        Direct("json", c, get_dependencies_from_json(c, cache, j))

CallIndex ==
    \E c \in Ireqs, r \in ResolveOutcomes :
        Direct("index", c, get_dependencies_from_index(c, cache, r))

Next ==
    \/ GetDependencies
    \/ CallCache
    \/ CallWheel
    \/ CallJson
    \/ CallIndex

Spec == Init /\ [][Next]_vars

(* ------------------------------ the merge ------------------------------ *)

MergeInit ==
    /\ PipelineIdle
    /\ self \in AbstractDependencies
    /\ other \in AbstractDependencies
    /\ merged = NotMerged
    /\ VersionsIdle
    /\ FindIdle
    /\ GroupIdle
    /\ OthersIdle

\* self.compatible_abstract_dep(other)
Merge ==
    /\ merged = NotMerged
    /\ merged' = compatible_abstract_dep(self, other)
    /\ UNCHANGED <<self, other, pvars, vvars, fvars, gvars, dvars, rvars, svars>>

\* The result of a merge is merged with a further dependency.
MergeAgain ==
    /\ merged.error = ""
    /\ self' = merged.value
    /\ other' \in AbstractDependencies
    /\ merged' = NotMerged
    /\ UNCHANGED <<pvars, vvars, fvars, gvars, dvars, rvars, svars>>

\* self.get_deps(candidate) for a candidate of self, before self is merged
\* or queried: merged and returned are what a call gave for the operands as
\* they were, and get_deps on a merge result is get_deps on self once the
\* result is merged again.
GetDeps ==
    /\ merged = NotMerged
    /\ returned = NotReturned
    /\ \E i \in DOMAIN self.candidates, retrieved \in DependencyLists :
          self' = get_deps(self, self.candidates[i], retrieved)
    /\ UNCHANGED <<other, merged, pvars, vvars, fvars, gvars, dvars, rvars, svars>>

MergeNext ==
    \/ Merge
    \/ MergeAgain
    \/ GetDeps

SpecMerge == MergeInit /\ [][MergeNext]_vars

(* ------------------------- the version queries ------------------------- *)

\* self.version_set
VersionSet ==
    /\ returned' = Gives("version_set", self, other, version_set(self))
    /\ UNCHANGED <<mvars, pvars, fvars, gvars, dvars, rvars, svars>>

\* self.compatible_versions(other)
CompatibleVersions ==
    /\ returned' = Gives("compatible_versions", self, other,
                         compatible_versions(self, other))
    /\ UNCHANGED <<mvars, pvars, fvars, gvars, dvars, rvars, svars>>

VersionsNext ==
    \/ GetDeps
    \/ VersionSet
    \/ CompatibleVersions

SpecVersions == MergeInit /\ [][VersionsNext]_vars

(* --------------------------- the index search -------------------------- *)

FindInit ==
    /\ PipelineIdle
    /\ MergeIdle
    /\ VersionsIdle
    /\ finder \in SUBSET InstallationCandidates
    /\ matches = NotSearched
    /\ GroupIdle
    /\ OthersIdle

\* find_all_matches(finder, ireq, pre)
FindAllMatches ==
    /\ \E ireq \in Requirements, pre \in BOOLEAN :
          matches' = Searched(ireq, pre, find_all_matches(finder, ireq, pre))
    /\ UNCHANGED <<finder, pvars, mvars, vvars, gvars, dvars, rvars, svars>>

FindNext == FindAllMatches

SpecFind == FindInit /\ [][FindNext]_vars

(* ----------------------------- the grouping ---------------------------- *)

GroupInit ==
    /\ PipelineIdle
    /\ MergeIdle
    /\ VersionsIdle
    /\ FindIdle
    /\ constraints \in SeqsUpTo(Declarations, MaxConstraints)
    /\ yielded = NotGrouped
    /\ OthersIdle

\* list(get_grouped_dependencies(constraints)): what it yields, and the
\* entries of constraints as the loop leaves them.
GetGroupedDependencies ==
    /\ yielded' = Grouped(get_grouped_dependencies(constraints))
    /\ constraints' = constraints_after(constraints)
    /\ UNCHANGED <<pvars, mvars, vvars, fvars, dvars, rvars, svars>>

GroupNext == GetGroupedDependencies

SpecGroup == GroupInit /\ [][GroupNext]_vars

(* ======================= the retrieval pipeline ======================== *)

\* A call was made in this step.
Called == tick' # tick

\* The names of the tiers a call invoked, in order.
Names(call) == [i \in DOMAIN call.tiers |-> call.tiers[i].name]

\* The tier whose result a call ended with.
LastTier(call) == call.tiers[Len(call.tiers)]

TierOrder == <<"cache", "wheel", "json", "index">>

\* C1: get_dependencies invokes the tiers in the order cache, wheel cache,
\* metadata service, resolver; every tier before the last one invoked gave no
\* answer, and a returned set (the empty one included) is the answer of the
\* last tier invoked.  With an entry for a non-editable requirement in the
\* Dependency Cache the call returns the set of the cached list and invokes
\* the cache tier alone.
C1_FirstAnswerWins ==
    [][(Called /\ last'.op = "get_dependencies") =>
        LET n == Len(last'.tiers)
            c == last'.ireq
        IN  /\ n \in 1..4
            /\ \A i \in 1..n : last'.tiers[i].name = TierOrder[i]
            /\ \A i \in 1..(n - 1) : last'.tiers[i].gave = "none"
            /\ last'.outcome = "set" =>
                  /\ last'.tiers[n].gave = "set"
                  /\ last'.deps = last'.tiers[n].deps
            /\ (~editable(c) /\ InCache(cache, c)) =>
                  /\ last'.outcome = "set"
                  /\ last'.deps = Range(cache[c])
                  /\ Names(last') = <<"cache">>
                  /\ last'.tiers[1].asked = ""]_vars

\* C1's case: foo==1.0 seeded with ["bar>=1"], asked for, answered from the
\* cache tier alone.
C1_Witness ==
    /\ last.op = "get_dependencies"
    /\ last.ireq = "foo==1.0"
    /\ InCache(cache, "foo==1.0")
    /\ cache["foo==1.0"] = <<"bar>=1">>
    /\ last.deps = {"bar>=1"}
    /\ Names(last) = <<"cache">>

\* A get_dependencies call that returned the answer of the wheel, json or
\* index tier for a requirement that is not editable.
FilledBy(call) ==
    /\ call.op = "get_dependencies"
    /\ call.outcome = "set"
    /\ ~editable(call.ireq)
    /\ LastTier(call).name \in {"wheel", "json", "index"}

\* C2: after get_dependencies returned the answer of the wheel, json or
\* index tier for a requirement that is not editable, the Dependency Cache
\* holds the returned dependencies for it, and the next get_dependencies for
\* the same requirement returns the same set from the cache tier alone.
C2_CachedAfterFill ==
    [][FilledBy(last) =>
        /\ InCache(cache, last.ireq)
        /\ Range(cache[last.ireq]) = last.deps
        /\ (Called /\ last'.op = "get_dependencies" /\ last'.ireq = last.ireq) =>
              /\ last'.outcome = "set"
              /\ last'.deps = last.deps
              /\ Names(last') = <<"cache">>]_vars

\* C3: an entry of the Dependency Cache is never removed and never changes.
C3_EntriesNeverChange ==
    [][\A c \in DOMAIN cache : InCache(cache', c) /\ cache'[c] = cache[c]]_vars

\* The resolver was asked during the call and raised.
ResolverRaised(call) ==
    /\ LastTier(call).name = "index"
    /\ LastTier(call).asked = "raise"

\* C4: when the resolver raises, get_dependencies_from_index (called directly
\* or as the last tier of get_dependencies) returns the empty set, raises
\* nothing and leaves the Dependency Cache as it was.
C4_ResolverErrorSwallowed ==
    [][(Called /\ last'.op \in {"index", "get_dependencies"}
               /\ ResolverRaised(last')) =>
        /\ last'.outcome = "set"
        /\ last'.deps = {}
        /\ last'.error = ""
        /\ cache' = cache]_vars

\* C4's case: a direct call of the index tier whose resolver raised, for a
\* requirement without a cache entry.
C4_Witness ==
    /\ last.op = "index"
    /\ ResolverRaised(last)
    /\ last.outcome = "set"
    /\ ~editable(last.ireq)
    /\ ~InCache(cache, last.ireq)

\* The metadata service was asked during a direct call of the json tier and
\* its response could not be decoded.
Malformed(call) ==
    /\ call.op = "json"
    /\ LastTier(call).asked = "undecodable"

\* C6: a malformed response makes get_dependencies_from_json return None,
\* raise nothing and leave the Dependency Cache as it was, whether or not
\* the requirement has a cache entry.
C6_MalformedIsNoAnswer ==
    [][(Called /\ Malformed(last')) =>
        /\ last'.outcome = "none"
        /\ cache' = cache]_vars

\* C7: for an editable requirement the cache tier gives no answer, whatever
\* the Dependency Cache holds, and a set get_dependencies returns for it is
\* not the cache tier's.
C7_EditableNeverFromCache ==
    (last.op \in {"cache", "get_dependencies"} /\ editable(last.ireq)) =>
        /\ last.tiers[1].name = "cache"
        /\ last.tiers[1].gave = "none"
        /\ last.outcome = "set" => LastTier(last).name # "cache"

\* C7's case: get_dependencies returned for an editable requirement that has
\* an entry in the Dependency Cache.
C7_Witness ==
    /\ last.op = "get_dependencies"
    /\ editable(last.ireq)
    /\ InCache(cache, last.ireq)
    /\ last.outcome = "set"

\* C8: when the wheel-cache tier finds dependencies it leaves an existing
\* entry of the requirement unchanged, an empty one included, and writes the
\* entry when there was none.
C8_BackfillOnlyWhenAbsent ==
    [][(Called /\ last'.op = "wheel" /\ last'.outcome = "set") =>
        /\ InCache(cache, last'.ireq) => cache' = cache
        /\ ~InCache(cache, last'.ireq) => InCache(cache', last'.ireq)]_vars

(* ============================== the merge ============================== *)

\* A dependency of one candidate whose requirement is pinned or editable.
PinnedOrEditableSingleton(dep) ==
    /\ Len(dep.candidates) = 1
    /\ is_pinned(dep.requirement) \/ dep.requirement.editable

C10_MergeIdempotent ==
    (merged.error = "" /\ other = self) =>
        Range(merged.value.candidates) = Range(self.candidates)

\* other.compatible_abstract_dep(self): the merge with the operands swapped.
Swapped == compatible_abstract_dep(other, self)

\* The parsed versions of a dependency's candidates.
VersionsOf(dep) ==
    {parse(version_from_ireq(dep.candidates[i])) : i \in DOMAIN dep.candidates}

\* Neither operand of the merge is a single editable candidate.
NoneEditable == ~single_editable(self) /\ ~single_editable(other)

\* C11 as the specification states it: self.merge(other) and
\* other.merge(self) have the same set of candidates, unless an operand is a
\* single editable candidate, and then both orders return an editable operand.
C11_MergeCommutative ==
    merged.error = "" =>
        /\ NoneEditable =>
              Range(merged.value.candidates) = Range(Swapped.value.candidates)
        /\ ~NoneEditable =>
              /\ merged.value \in {self, other}
              /\ single_editable(merged.value)
              /\ Swapped.value \in {self, other}
              /\ single_editable(Swapped.value)

\* C11, amended: when neither operand is a single editable candidate,
\* self.merge(other) and other.merge(self) hold candidates of the same parsed
\* versions, the first taken from self's candidates and the second from
\* other's; when self is a single editable candidate the result is self,
\* otherwise when other is one the result is other, and the swapped merge
\* returns an editable operand too.
C11_MergeCommutativeByVersion ==
    merged.error = "" =>
        /\ NoneEditable =>
              /\ VersionsOf(merged.value) = VersionsOf(Swapped.value)
              /\ Range(merged.value.candidates) \subseteq Range(self.candidates)
              /\ Range(Swapped.value.candidates) \subseteq Range(other.candidates)
        /\ single_editable(self) => merged.value = self
        /\ (~single_editable(self) /\ single_editable(other)) =>
              merged.value = other
        /\ ~NoneEditable =>
              /\ Swapped.value \in {self, other}
              /\ single_editable(Swapped.value)

\* C11's case: two dependencies with candidates of the same versions under
\* different version strings, merged into a dependency of two or more
\* candidates that the swapped merge does not hold.
C11_Witness ==
    /\ merged.error = ""
    /\ NoneEditable
    /\ Len(merged.value.candidates) >= 2
    /\ VersionsOf(merged.value) = VersionsOf(Swapped.value)
    /\ Range(merged.value.candidates) # Range(Swapped.value.candidates)

\* A dependency whose requirement is pinned or editable holds that
\* requirement as its one candidate.
HoldsItself(dep) ==
    (is_pinned(dep.requirement) \/ dep.requirement.editable) =>
        dep.candidates = <<dep.requirement>>

\* C12: every dependency from_requirement built or a sequence of merges
\* returned, whose requirement is pinned or editable, has exactly one
\* candidate, equal to that requirement (for a merge, looked at when both
\* operands have candidates).
C12_PinnedOrEditableHoldsItself ==
    /\ HoldsItself(self)
    /\ HoldsItself(other)
    /\ (/\ merged.error = ""
        /\ self.candidates # <<>>
        /\ other.candidates # <<>>) => HoldsItself(merged.value)

(* ========================== the index search =========================== *)

\* The version of a candidate passes every clause of the requirement's range.
InRange(ireq, c) == \A cl \in ireq.specifier : contains(cl, c.version)

\* The index candidates a requirement's range accepts without pre-releases,
\* and with them.
Stable(ireq) == {c \in finder : InRange(ireq, c) /\ ~is_prerelease(c.version)}

Widened(ireq) == {c \in finder : InRange(ireq, c)}

\* C13: called with pre-releases excluded, find_all_matches returns the index
\* candidates in range that are not pre-releases when there is one, and the
\* candidates in range, pre-releases included, when there is none; called
\* with pre-releases included it returns the candidates in range.  A
\* pre-release is returned by a call that excluded them only when no stable
\* release is in range, and the result is a set of index candidates, empty
\* when nothing is in range.
C13_StableFirst ==
    matches.called =>
        /\ ~matches.pre =>
              matches.candidates =
                  IF Stable(matches.ireq) # {} THEN Stable(matches.ireq)
                  ELSE Widened(matches.ireq)
        /\ matches.pre => matches.candidates = Widened(matches.ireq)
        /\ \A c \in matches.candidates :
              is_prerelease(c.version) =>
                  matches.pre \/ Stable(matches.ireq) = {}
        /\ matches.candidates \subseteq finder
        /\ Widened(matches.ireq) = {} => matches.candidates = {}

\* C13's case: a call that excluded pre-releases, found no stable release in
\* range and returned the pre-release in range, the index holding stable
\* releases out of range.
C13_Witness ==
    /\ matches.called
    /\ ~matches.pre
    /\ Stable(matches.ireq) = {}
    /\ \E c \in matches.candidates : is_prerelease(c.version)
    /\ \E c \in finder : ~is_prerelease(c.version)

(* ========================= the version queries ========================= *)

IntersectionReturned ==
    /\ returned.op = "compatible_versions"
    /\ ~returned.value.is_dep
    /\ returned.value.versions # {}
    /\ returned.value.versions # version_set(returned.self)
    /\ returned.value.versions # version_set(returned.other)

\* Two version strings name the same version when they agree once the
\* shorter is padded with zeros.
Segment(v, k) == IF k <= Len(v) THEN v[k] ELSE 0

SameVersion(v, w) ==
    \A k \in 1..(Len(v) + Len(w)) : Segment(v, k) = Segment(w, k)

\* The number of distinct versions among a dependency's candidates.
DistinctVersions(dep) ==
    Cardinality(
        {{j \in DOMAIN dep.candidates :
             SameVersion(version_from_ireq(dep.candidates[i]),
                         version_from_ireq(dep.candidates[j]))} :
           i \in DOMAIN dep.candidates})

KeysOf(ireqs) == {key_from_ireq(ireqs[i]) : i \in DOMAIN ireqs}

\* The entries of a list that share a canonical name, in the list's order.
Group(ireqs, key) == SelectSeq(ireqs, LAMBDA ireq : key_from_ireq(ireq) = key)

HasEditable(ireqs) == \E i \in DOMAIN ireqs : ireqs[i].editable

\* C16: for every group with an editable entry exactly one entry is yielded:
\* that editable entry (the first one of the group) as it was handed in,
\* whatever the other entries of the group hold.
C16_EditableAlone ==
    yielded.called =>
        \A key \in KeysOf(constraints) :
            LET group == Group(constraints, key)
                out == Group(yielded.ireqs, key)
            IN  HasEditable(group) =>
                    /\ Len(out) = 1
                    /\ out[1].editable
                    /\ \E i \in DOMAIN group :
                          /\ out[1] = group[i]
                          /\ \A j \in 1..(i - 1) : ~group[j].editable

\* C16's case: a group of three with ranged entries before the editable one.
C16_Witness ==
    /\ yielded.called
    /\ Len(Group(constraints, "pkg")) = 3
    /\ ~constraints[1].editable
    /\ constraints[1].specifier.specs # {}
    /\ constraints[2].extras # {}
    /\ constraints[3].editable
    /\ yielded.ireqs = <<constraints[3]>>

\* A specifier accepts a version when every clause contains it.
accepts(specifier, v) == \A cl \in specifier.specs : contains(cl, v)

\* C17: for every group without an editable entry the yielded entry's range
\* accepts a version exactly when the range of every entry of the group
\* accepts it.
C17_RangeIsConjunction ==
    yielded.called =>
        \A key \in KeysOf(constraints) :
            LET group == Group(constraints, key)
                out == Group(yielded.ireqs, key)
            IN  ~HasEditable(group) =>
                    /\ Len(out) = 1
                    /\ \A v \in VersionStrings :
                          accepts(out[1].specifier, v) <=>
                              \A i \in DOMAIN group :
                                  accepts(group[i].specifier, v)

(* ================== the retrieval pipeline, continued ================== *)

\* A requirement that is neither editable nor pinned.
Ranged(ireq) == ~editable(ireq) /\ ~is_pinned_requirement(ireq)

\* C18: no tier raises for a requirement that is neither editable nor
\* pinned: the json tier gives no answer for it, called directly or by
\* get_dependencies, and get_dependencies then goes on to the index tier
\* and returns its set.
C18_RangedIsNoAnswer ==
    (last.op \in {"json", "get_dependencies"} /\ Ranged(last.ireq)) =>
        /\ last.outcome # "raised"
        /\ \A i \in DOMAIN last.tiers :
              last.tiers[i].name = "json" => last.tiers[i].gave = "none"
        /\ (last.op = "get_dependencies" /\ "json" \in Range(Names(last))) =>
              LastTier(last).name = "index"

\* The step is a direct call of the json tier for c that got the response j.
JsonStep(c, j) ==
    LET t == get_dependencies_from_json(c, cache, j)
    IN  /\ Called
        /\ cache' = t.cache
        /\ last' = Call("json", c, <<Invoked("json", t)>>, t)

\* The requirement lines of a live response: those without an extra marker,
\* formatted.
LiveSet(j) ==
    {format_requirement(j.requires[i]) :
        i \in {k \in DOMAIN j.requires : ~has_extra_marker(j.requires[k])}}

\* C19: a json-tier call for a pinned requirement whose query succeeded
\* returns the set of the live response; with no entry for the requirement
\* it stores the live list as the entry and changes no other; with an entry,
\* whatever it holds, it leaves the Dependency Cache as it was.  A call for
\* a requirement with an entry never changes the cache, whatever the
\* response.
C19_FirstFetchStoresLaterLeave ==
    [][/\ (/\ Called
           /\ last'.op = "json"
           /\ is_pinned_requirement(last'.ireq)
           /\ LastTier(last').asked = "ok") =>
              LET c == last'.ireq
              IN  \A j \in {r \in JsonResponses : r.kind = "ok"} :
                    JsonStep(c, j) =>
                      /\ last'.outcome = "set"
                      /\ last'.deps = LiveSet(j)
                      /\ InCache(cache, c) => cache' = cache
                      /\ ~InCache(cache, c) =>
                            /\ InCache(cache', c)
                            /\ Range(cache'[c]) = LiveSet(j)
                            /\ \A i \in DOMAIN cache'[c] :
                                  ~has_extra_marker(cache'[c][i])
                            /\ DOMAIN cache' = DOMAIN cache \cup {c}
                            /\ \A k \in DOMAIN cache : cache'[k] = cache[k]
       /\ (Called /\ last'.op = "json" /\ InCache(cache, last'.ireq)) =>
              cache' = cache]_vars

\* C19's case: a json-tier call for a requirement with a non-empty entry
\* returned a live set that differs from the entry, which is still there.
C19_Witness ==
    /\ last.op = "json"
    /\ last.outcome = "set"
    /\ InCache(cache, last.ireq)
    /\ cache[last.ireq] # <<>>
    /\ last.deps # Range(cache[last.ireq])

(* ========================= the merge, continued ======================== *)

\* C20: the dep_dict of the dependency a merge returns has keys among its
\* candidates; when the merge built a new dependency the entries are those
\* of self's dep_dict for the surviving candidates, with self's values, and
\* none for a candidate that was dropped.
C20_DepDictOfSurvivors ==
    merged.error = "" =>
        LET result == merged.value
            survivors == Range(result.candidates)
        IN  /\ DOMAIN result.dep_dict \subseteq survivors
            /\ NoneEditable =>
                  /\ DOMAIN result.dep_dict = survivors \cap DOMAIN self.dep_dict
                  /\ \A k \in DOMAIN result.dep_dict :
                        result.dep_dict[k] = self.dep_dict[k]
                  /\ \A k \in DOMAIN self.dep_dict \ survivors :
                        k \notin DOMAIN result.dep_dict

\* C20's case: self knows the dependencies of a candidate that survives and
\* of one that is dropped, the first of them not empty.
C20_Witness ==
    /\ merged.error = ""
    /\ NoneEditable
    /\ \E k \in DOMAIN merged.value.dep_dict :
          merged.value.dep_dict[k] # <<>>
    /\ \E k \in DOMAIN self.dep_dict :
          k \notin Range(merged.value.candidates)

(* ====================== get_deps on a merge result ===================== *)

\* result.get_deps(candidate) for a candidate of the dependency a merge
\* returned.  When the merge returned an operand itself, the result and the
\* operand are one object, and the fill of its dep_dict is a fill of the
\* operand's.
GetDepsOfResult ==
    /\ merged.error = ""
    /\ \E i \in DOMAIN merged.value.candidates, retrieved \in DependencyLists :
          LET filled == get_deps(merged.value, merged.value.candidates[i],
                                 retrieved)
          IN  /\ merged' = [merged EXCEPT !.value = filled]
              /\ self' = IF merged.object = "self" THEN filled ELSE self
              /\ other' = IF merged.object = "other" THEN filled ELSE other
    /\ UNCHANGED <<pvars, vvars, fvars, gvars, dvars, rvars, svars>>

ResultNext ==
    \/ Merge
    \/ GetDeps
    \/ GetDepsOfResult

SpecResult == MergeInit /\ [][ResultNext]_vars

\* C21: a merge leaves both operands as they were and returns a new
\* AbstractDependency, never an operand itself; and a get_deps fill on the
\* merge result adds no entry to the dep_dict of either operand.
C21_MergeLeavesOperands ==
    [][/\ (merged = NotMerged /\ merged' # NotMerged) =>
              /\ self' = self
              /\ other' = other
              /\ merged'.error = "" => merged'.object = "new"
       /\ (merged.error = "" /\ merged'.error = "") =>
              /\ DOMAIN self'.dep_dict = DOMAIN self.dep_dict
              /\ DOMAIN other'.dep_dict = DOMAIN other.dep_dict]_vars

(* ============================== get_deps =============================== *)

\* A get_deps that makes the retrieval whenever the stored list is empty.
dependencies_of_if_falsy(dep, candidate, retrieved) ==
    LET key == candidate
        retrieval == key \notin DOMAIN dep.dep_dict \/ dep.dep_dict[key] = <<>>
        dep_dict == IF retrieval
                    THEN [k \in DOMAIN dep.dep_dict \cup {key} |->
                             IF k = key THEN retrieved ELSE dep.dep_dict[k]]
                    ELSE dep.dep_dict
    IN  [retrieval |-> retrieval,
         self |-> [dep EXCEPT !.dep_dict = dep_dict],
         value |-> dep_dict[key]]

\* self.get_deps(candidate) as a call: whether the key is missing and the
\* retrieval is made, self afterwards, and the list returned, which is the
\* entry of the key.
dependencies_of(dep, candidate, retrieved) ==
    LET key == candidate
        after == get_deps(dep, candidate, retrieved)
    IN  [retrieval |-> key \notin DOMAIN dep.dep_dict,
         self |-> after,
         value |-> after.dep_dict[key]]

DepsInit ==
    /\ PipelineIdle
    /\ self \in AbstractDependencies
    /\ other = NoDep
    /\ merged = NotMerged
    /\ VersionsIdle
    /\ FindIdle
    /\ GroupIdle
    /\ OthersIdle

\* self.get_deps(candidate), for a candidate of self, any number of times.
GetDepsCall ==
    /\ \E i \in DOMAIN self.candidates, retrieved \in DependencyLists :
          LET did == dependencies_of(self, self.candidates[i], retrieved)
          IN  /\ self' = did.self
              /\ got' = Got(self.candidates[i], did.retrieval, did.value,
                            1 - got.parity)
    /\ UNCHANGED <<other, merged, pvars, vvars, fvars, gvars, rvars, svars>>

DepsNext == GetDepsCall

SpecDeps == DepsInit /\ [][DepsNext]_vars

RECURSIVE marker_atoms(_)
marker_atoms(markers) ==
    UNION {IF markers[i].type = "tuple" THEN {markers[i].text}
           ELSE IF markers[i].type = "list" THEN marker_atoms(markers[i].items)
           ELSE {} : i \in DOMAIN markers}

\* C23: for every group without an editable entry, the markers of the
\* yielded entry are the conjunction of the markers of all entries of the
\* group that carry markers: every condition of every entry is in it, wherever
\* the entry stands in the group.
C23_MarkersAreConjunction ==
    yielded.called =>
        \A key \in KeysOf(constraints) :
            LET group == Group(constraints, key)
                out == Group(yielded.ireqs, key)
            IN  ~HasEditable(group) =>
                    /\ Len(out) = 1
                    /\ marker_atoms(out[1].markers) =
                           UNION {marker_atoms(group[i].markers) :
                                     i \in DOMAIN group}

\* C27: get_grouped_dependencies leaves every entry of the list it is handed
\* as it was: range, markers, extras and constraint flag.
C27_InputsUnchanged ==
    [][yielded'.called => constraints' = constraints]_vars

\* C27's case: a group of three was folded whose first entry has no
\* markers and whose second and third have: the accumulator took the second
\* entry's Marker object before the third was folded into it.
C27_Witness ==
    /\ yielded.called
    /\ Len(constraints) = 3
    /\ Len(yielded.ireqs) = 1
    /\ ~HasEditable(constraints)
    /\ constraints[1].markers = NoMarkers
    /\ constraints[2].markers # NoMarkers
    /\ constraints[3].markers # NoMarkers
    /\ constraints[3].markers # constraints[2].markers
    /\ yielded.ireqs[1].markers = constraints[2].markers

(* ================== the retrieval pipeline, tiers' ends ================ *)

\* C25: the full-resolution tier always returns a set, the empty one when
\* the resolution failed, and never None: a get_dependencies call that gets
\* to the fourth tier returns that tier's set, and no call ends with the
\* RuntimeError of the exhausted tiers.
C25_IndexAlwaysAnswers ==
    /\ last.error # "RuntimeError"
    /\ (last.op \in {"index", "get_dependencies"}
          /\ LastTier(last).name = "index") =>
              /\ LastTier(last).gave = "set"
              /\ last.outcome = "set"
              /\ last.deps = LastTier(last).deps
              /\ LastTier(last).asked = "raise" => last.deps = {}

\* C25's case: get_dependencies went through all four tiers and the
\* resolution failed; the call returned the empty set.
C25_Witness ==
    /\ last.op = "get_dependencies"
    /\ Names(last) = TierOrder
    /\ LastTier(last).asked = "raise"
    /\ last.outcome = "set"
    /\ last.deps = {}

\* C26: a call for an editable requirement, of get_dependencies or of a tier
\* directly, leaves the Dependency Cache as it was.
C26_EditableNeverCached ==
    [][(Called /\ editable(last'.ireq)) => cache' = cache]_vars

\* C26's case: get_dependencies for an editable requirement went through to
\* the resolver, which found dependencies; the Dependency Cache has no entry
\* for the requirement.
C26_Witness ==
    /\ last.op = "get_dependencies"
    /\ editable(last.ireq)
    /\ Names(last) = TierOrder
    /\ LastTier(last).asked = "ok"
    /\ last.deps # {}
    /\ ~InCache(cache, last.ireq)

(* ================= two get_dependencies calls, interleaved ============= *)

\* The two calls, made from two threads.
Threads == {1, 2}

\* Where a call is (at), the list it is about to store (holding), whether
\* the cache tier answered it (hit), whether it wrote an entry (wrote), how
\* it ended (outcome), and whether it began after the other call had ended
\* (after).
NotBegun ==
    [at |-> "begin", holding |-> <<>>, hit |-> FALSE, wrote |-> FALSE,
     outcome |-> "", after |-> FALSE]

RaceInit ==
    /\ cache \in SeedCaches
    /\ last = NoCall
    /\ tick = 0
    /\ MergeIdle
    /\ VersionsIdle
    /\ FindIdle
    /\ GroupIdle
    /\ DepsIdle
    /\ SetupIdle
    /\ asked \in {c \in Ireqs : ~editable(c)}
    /\ calls = [t \in Threads |-> NotBegun]

\* A call moves on; the Dependency Cache is as dc afterwards.
Moves(t, call, dc) ==
    /\ calls' = [calls EXCEPT ![t] = call]
    /\ cache' = dc
    /\ UNCHANGED <<asked, last, tick, mvars, vvars, fvars, gvars, dvars, svars>>

Ends(call, outcome) == [call EXCEPT !.at = "done", !.outcome = outcome]

\* get_dependencies_from_cache: dep in DEPENDENCY_CACHE, and the read.
CacheTier(t) ==
    /\ calls[t].at = "begin"
    /\ LET call == [calls[t] EXCEPT
                       !.after = \E u \in Threads \ {t} : calls[u].at = "done"]
       IN  IF InCache(cache, asked)
           THEN Moves(t, Ends([call EXCEPT !.hit = TRUE], "set"), cache)
           ELSE Moves(t, [call EXCEPT !.at = "wheel"], cache)

\* get_dependencies_from_wheel_cache: WHEEL_CACHE.get(...) and if matches.
WheelGet(t) ==
    /\ calls[t].at = "wheel"
    /\ \E lookup \in WheelLookups :
          IF lookup.found /\ lookup.reqs # <<>>
          THEN Moves(t, [calls[t] EXCEPT !.at = "wheel_check",
                                         !.holding = Formatted(lookup.reqs)],
                     cache)
          ELSE Moves(t, [calls[t] EXCEPT !.at = "json"], cache)

\* if not DEPENDENCY_CACHE.get(ireq)
WheelCheck(t) ==
    /\ calls[t].at = "wheel_check"
    /\ IF ~GetTruthy(cache, asked)
       THEN Moves(t, [calls[t] EXCEPT !.at = "wheel_write"], cache)
       ELSE Moves(t, Ends(calls[t], "set"), cache)

\* DEPENDENCY_CACHE[ireq] = [format_requirement(m) for m in matches]
WheelWrite(t) ==
    /\ calls[t].at = "wheel_write"
    /\ Moves(t, Ends([calls[t] EXCEPT !.wrote = TRUE], "set"),
             SetItem(cache, asked, calls[t].holding))

\* get_dependencies_from_json: the pinned test and
\* if ireq not in DEPENDENCY_CACHE.
JsonCheck(t) ==
    /\ calls[t].at = "json"
    /\ IF ~is_pinned_requirement(asked)
       THEN Moves(t, Ends(calls[t], "TypeError"), cache)
       ELSE IF ~InCache(cache, asked)
       THEN Moves(t, [calls[t] EXCEPT !.at = "json_list"], cache)
       ELSE Moves(t, [calls[t] EXCEPT !.at = "json_live"], cache)

\* list(gen(ireq)) inside the try: the request and its answer.
JsonList(t) ==
    /\ calls[t].at = "json_list"
    /\ \E resp \in JsonResponses :
          IF gen_error(resp) = "JSONDecodeError"
          THEN Moves(t, [calls[t] EXCEPT !.at = "index"], cache)
          ELSE IF gen_error(resp) # ""
          THEN Moves(t, Ends(calls[t], gen_error(resp)), cache)
          ELSE Moves(t, [calls[t] EXCEPT !.at = "json_write",
                                         !.holding = gen(resp)], cache)

\* reqs = DEPENDENCY_CACHE[ireq] = ...: the store, and return set(req_iter).
JsonWrite(t) ==
    /\ calls[t].at = "json_write"
    /\ Moves(t, Ends([calls[t] EXCEPT !.wrote = TRUE], "set"),
             SetItem(cache, asked, calls[t].holding))

\* req_iter = gen(ireq); return set(req_iter): the entry appeared since the
\* cache tier looked.
JsonLive(t) ==
    /\ calls[t].at = "json_live"
    /\ \E resp \in JsonResponses :
          IF gen_error(resp) # ""
          THEN Moves(t, Ends(calls[t], gen_error(resp)), cache)
          ELSE Moves(t, Ends(calls[t], "set"), cache)

\* get_dependencies_from_index: resolver._resolve_one(reqset, dep).
IndexResolve(t) ==
    /\ calls[t].at = "index"
    /\ \E outcome \in ResolveOutcomes :
          IF outcome.kind = "ok"
          THEN Moves(t, [calls[t] EXCEPT !.at = "index_write",
                                         !.holding = Formatted(outcome.reqs)],
                     cache)
          ELSE Moves(t, Ends(calls[t], "set"), cache)

\* if not dep.editable: DEPENDENCY_CACHE[dep] = [...]; return reqs
IndexWrite(t) ==
    /\ calls[t].at = "index_write"
    /\ IF ~editable(asked)
       THEN Moves(t, Ends([calls[t] EXCEPT !.wrote = TRUE], "set"),
                  SetItem(cache, asked, calls[t].holding))
       ELSE Moves(t, Ends(calls[t], "set"), cache)

RaceNext ==
    \/ \E t \in Threads : CacheTier(t)
    \/ \E t \in Threads : WheelGet(t)
    \/ \E t \in Threads : WheelCheck(t)
    \/ \E t \in Threads : WheelWrite(t)
    \/ \E t \in Threads : JsonCheck(t)
    \/ \E t \in Threads : JsonList(t)
    \/ \E t \in Threads : JsonWrite(t)
    \/ \E t \in Threads : JsonLive(t)
    \/ \E t \in Threads : IndexResolve(t)
    \/ \E t \in Threads : IndexWrite(t)

SpecRace == RaceInit /\ [][RaceNext]_vars

\* The writes the two calls made.
Writes == Cardinality({t \in DOMAIN calls : calls[t].wrote})

\* Both calls missed the Dependency Cache and both wrote an entry.
BothWrote ==
    /\ \A t \in DOMAIN calls : calls[t].at = "done" /\ ~calls[t].hit
    /\ Writes = 2

\* C24: when the two calls run one after the other and the first returned
\* a set, the second is answered by the cache tier and at most one entry is
\* written; two writes take two calls that overlap.
C24_SecondHitsCache ==
    \A t \in DOMAIN calls :
        (/\ calls[t].at = "done"
         /\ calls[t].after
         /\ \A u \in DOMAIN calls \ {t} : calls[u].outcome = "set") =>
            /\ calls[t].hit
            /\ Writes <= 1

(* ============================== setup_info ============================= *)

\* Most _log wrappers a run lets pile up on distutils.log.Log._log.
MaxWrappers == 3

\* sys.argv of the process before the first call.
Argv == <<"pipenv", "install">>

\* The base directories of the projects get_info is called for.
BaseDirs == {"/src/a", "/src/b"}

\* self.setup_py.as_posix()
script_name(base_dir) == base_dir \o "/setup.py"

\* How exec of the setup script ends: it returns, or it raises NameError,
\* another Exception, or SystemExit.
ScriptOutcomes == {"returns", "NameError", "Exception", "SystemExit"}

\* The process-wide state a call works on.
Process(log, argv, stop_after) ==
    [Log_log |-> log, sys_argv |-> argv, _setup_stop_after |-> stop_after]

\* What a call did: the process-wide state after it and the exception it
\* let out ("": none).
Left(process, error) == [process |-> process, error |-> error]

\* The with block of _suppress_distutils_logs around a body that ends with
\* error: Log._log is wrapped on entry; the statement after the yield puts
\* the saved function back, and runs only when the body raised nothing.
_suppress_distutils_logs(f, error) == IF error = "" THEN f ELSE f + 1

\* self.run_setup() for a project with a setup.py whose exec ends as script.
run_setup(process, old, base_dir, script) ==
    LET args == <<"egg_info", "--egg-base", base_dir>>
        written == <<script_name(base_dir)>> \o args
        \* save_argv is sys.argv itself before 3.5, and a copy of it after
        save_argv == IF old THEN written ELSE process.sys_argv
        \* NameError is handled by running setup.py in a subprocess
        error == IF script \in {"returns", "NameError"} THEN "" ELSE script
    IN  Left(Process(_suppress_distutils_logs(process.Log_log, error),
                     save_argv, "None"),
             error)

\* self.get_info(): run_setup is called when setup.cfg left requires or name
\* unset; an Exception of it is swallowed, anything else goes on.
get_info(process, old, base_dir, needs_setup, script) ==
    IF ~needs_setup THEN Left(process, "")
    ELSE LET ran == run_setup(process, old, base_dir, script)
         IN  Left(ran.process, IF ran.error = "Exception" THEN "" ELSE ran.error)

Info(base_dir, ran, script, error, parity) ==
    [called |-> TRUE, base_dir |-> base_dir, ran |-> ran, script |-> script,
     error |-> error, parity |-> parity]

SetupInit ==
    /\ PipelineIdle
    /\ MergeIdle
    /\ VersionsIdle
    /\ FindIdle
    /\ GroupIdle
    /\ DepsIdle
    /\ RaceIdle
    /\ Log_log = 0
    /\ sys_argv = Argv
    /\ _setup_stop_after = "None"
    /\ old_python \in BOOLEAN
    /\ info = NoInfo

\* SetupInfo(base_dir=...).get_info()
GetInfo ==
    /\ Log_log < MaxWrappers
    /\ \E base_dir \in BaseDirs, needs_setup \in BOOLEAN :
        \E script \in IF needs_setup THEN ScriptOutcomes ELSE {"none"} :
          LET did == get_info(Process(Log_log, sys_argv, _setup_stop_after),
                              old_python, base_dir, needs_setup, script)
          IN  /\ Log_log' = did.process.Log_log
              /\ sys_argv' = did.process.sys_argv
              /\ _setup_stop_after' = did.process._setup_stop_after
              /\ info' = Info(base_dir, needs_setup, script, did.error,
                              1 - info.parity)
    /\ UNCHANGED <<old_python, pvars, mvars, vvars, fvars, gvars, dvars, rvars>>

SetupNext == GetInfo

SpecSetup == SetupInit /\ [][SetupNext]_vars

\* C28: after any sequence of get_info calls, whether the setup scripts
\* returned or raised, distutils.log.Log._log is the original function,
\* sys.argv is what it was before the first call and _setup_stop_after is
\* None.
C28_ProcessStateRestored ==
    info.called =>
        /\ Log_log = 0
        /\ sys_argv = Argv
        /\ _setup_stop_after = "None"

====
